---- MODULE Spec2Model ----
(***************************************************************************)
(* Model of leetgo's code generation core (lang/gen.go): the generator     *)
(* registry lookup GetGenerator, the dispatch function Generate and the    *)
(* file writer tryWrite.                                                   *)
(*                                                                         *)
(* Strings whose characters the code inspects (language identifiers,      *)
(* slugs, short names, directories) are sequences of one-character        *)
(* strings, so that strings.ToLower and strings.HasPrefix are computed     *)
(* character by character.  Strings the code only copies (titles, ids,     *)
(* error texts) are TLA+ strings.                                          *)
(***************************************************************************)
EXTENDS Integers, Sequences, FiniteSets, TLC

VARIABLES
    SupportedLangs,    \* the registry: sequence of generators, registration order
    cfg,               \* configuration: Code.Lang, code.<lang>.out_dir, "yes"
    q,                 \* the problem: TitleSlug, QuestionFrontendId, snippets
    libraryInstalled,  \* what Testable.CheckLibrary reports
    disk,              \* absolute path -> file content, or NoFile
    state,             \* the persisted state: state.LastGenerated
    pc,                \* position inside lang.Generate
    gen,               \* local gen of Generate: the resolved generator, or Nil
    files,             \* local files of Generate
    i,                 \* loop index of the write loop (1-based)
    ret,               \* what Generate returned: [files, err]
    calls,             \* the calls Generate has made so far, in order
    writes,            \* one record per tryWrite call, in call order
    start,             \* disk, state, library as they were when Generate was called
    now,               \* the clock time.Now() reads, in half minutes
    lang,              \* the baseLang whose methods are called (receiver l)
    modifiers,         \* the modifiers passed to generateCode
    rendered,          \* what the calls of baseLang.Generate returned, in order
    coded              \* what generateCode returned

\* The variables only the template composer (baseLang) reads and writes.
renderVars == <<now, lang, modifiers, rendered, coded>>

vars == <<SupportedLangs, cfg, q, libraryInstalled, disk, state, pc, gen,
          files, i, ret, calls, writes, start, now, lang, modifiers, rendered,
          coded>>

-----------------------------------------------------------------------------
(* Bounds and input domains *)

\* Largest number of FileOutput entries a generator returns in one call.
MaxFiles == 2

\* Largest number of generators in a registry explored by SpecResolve.
MaxGens == 2

\* Characters of the identifiers and names explored by SpecResolve.
Alphabet == {"a", "A"}

\* Registered names: every string of one or two characters.
Names == {<<c>> : c \in Alphabet} \cup {<<c, d>> : c \in Alphabet, d \in Alphabet}

\* Identifiers a user can configure: every name, and the empty string.
Idents == Names \cup {<<>>}

-----------------------------------------------------------------------------
(* Values *)

\* The nil Generator / nil slice.
Nil == [nil |-> TRUE]

\* generateCode not called yet.
NoCode == [called |-> FALSE, code |-> <<>>]

\* The nil error.
NoErr == "nil"

\* No file at a path; content of a pre-existing file; an empty file.
NoFile == <<"no file">>
OldContent == <<"old">>
EmptyContent == <<>>

\* strings.ToLower on one character.
LowerChar(c) ==
    CASE c = "A" -> "a"
      [] c = "P" -> "p"
      [] c = "Y" -> "y"
      [] c = "J" -> "j"
      [] OTHER -> c

\* strings.ToLower
RECURSIVE ToLower(_)
ToLower(s) ==
    IF s = <<>> THEN <<>> ELSE <<LowerChar(Head(s))>> \o ToLower(Tail(s))

\* strings.HasPrefix(s, prefix)
HasPrefix(s, prefix) ==
    /\ Len(prefix) <= Len(s)
    /\ SubSeq(s, 1, Len(prefix)) = prefix

-----------------------------------------------------------------------------
(* Generator registry: GetGenerator *)

\* A generator as the registry sees it: its Slug(), its ShortName() and
\* whether it also implements Testable.
Generator(slug, shortName, testable) ==
    [slug |-> slug, shortName |-> shortName, testable |-> testable]

\* No two registered generators share a slug, and no two share a shortName.
UniqueNames(r) ==
    \A j \in DOMAIN r : \A k \in DOMAIN r :
        j # k => /\ r[j].slug # r[k].slug
                 /\ r[j].shortName # r[k].shortName

\* The loop condition of GetGenerator for generator l and the lowered identifier.
Matches(l, id) == HasPrefix(l.shortName, id) \/ HasPrefix(l.slug, id)

\* The range loop of GetGenerator from index k on: the first match, or nil.
RECURSIVE ScanLangs(_, _)
ScanLangs(k, id) ==
    IF k > Len(SupportedLangs) THEN Nil
    ELSE IF Matches(SupportedLangs[k], id) THEN SupportedLangs[k]
    ELSE ScanLangs(k + 1, id)

\* Mutant: the loop keeps going and returns the last match.
RECURSIVE ScanLangsLast(_, _)
ScanLangsLast(k, id) ==
    IF k < 1 THEN Nil
    ELSE IF Matches(SupportedLangs[k], id) THEN SupportedLangs[k]
    ELSE ScanLangsLast(k - 1, id)

GetGeneratorLastMatch(ident) == ScanLangsLast(Len(SupportedLangs), ToLower(ident))

\* Mutant: only the shortName is compared, the slug is forgotten.
RECURSIVE ScanShortNames(_, _)
ScanShortNames(k, id) ==
    IF k > Len(SupportedLangs) THEN Nil
    ELSE IF HasPrefix(SupportedLangs[k].shortName, id) THEN SupportedLangs[k]
    ELSE ScanShortNames(k + 1, id)

GetGeneratorShortNameOnly(ident) == ScanShortNames(1, ToLower(ident))

\* Mutant: the identifier is not lowered before the scan.
GetGeneratorNoLower(ident) == ScanLangs(1, ident)

\* GetGenerator(gen)
GetGenerator(ident) == ScanLangs(1, ToLower(ident))

\* q.GetCodeSnippet(slug): the starter snippet, "" (the empty sequence) when
\* the problem has none.
GetCodeSnippet(slug) ==
    IF slug \in DOMAIN q.CodeSnippets THEN q.CodeSnippets[slug] ELSE <<>>

-----------------------------------------------------------------------------
(* SpecResolve: GetGenerator applied to every identifier, for every       *)
(* registry of at most MaxGens generators with names from Names.           *)

Registries ==
    {r \in UNION {[1..n -> {Generator(s, sh, FALSE) : s \in Names, sh \in Names}]
                    : n \in 0..MaxGens} : UniqueNames(r)}

ZeroRecord == [Slug |-> "", FrontendID |-> "", Gen |-> <<>>]

InitResolve ==
    /\ SupportedLangs \in Registries
    /\ cfg \in [Lang : Idents, outDirs : {<<>>}, yes : {FALSE}]
    /\ q = [TitleSlug |-> "two-sum", QuestionFrontendId |-> "1",
            CodeSnippets |-> <<>>]
    /\ libraryInstalled = FALSE
    /\ disk = <<>>
    /\ state = [LastGenerated |-> ZeroRecord]
    /\ pc = "start"
    /\ now = 0
    /\ lang = Nil
    /\ modifiers = <<>>
    /\ rendered = <<>>
    /\ coded = NoCode
    /\ gen = Nil
    /\ files = <<>>
    /\ i = 1
    /\ ret = [files |-> <<>>, err |-> NoErr]
    /\ calls = <<>>
    /\ writes = <<>>
    /\ start = [disk |-> disk, state |-> state,
                libraryInstalled |-> libraryInstalled]

\* gen := GetGenerator(cfg.Code.Lang)
Resolve ==
    /\ pc = "start"
    /\ UNCHANGED renderVars
    /\ gen' = GetGenerator(cfg.Lang)
    /\ pc' = "resolved"
    /\ UNCHANGED <<SupportedLangs, cfg, q, libraryInstalled, disk, state,
                   files, i, ret, calls, writes, start>>

NextResolve == Resolve

SpecResolve == InitResolve /\ [][NextResolve]_vars

-----------------------------------------------------------------------------
(* File writer: tryWrite *)

\* utils.IsExist(file)
IsExist(file) == disk[file] # NoFile

\* What the user can answer to survey.AskOne for this file: the prompt is
\* only issued for an existing file when "yes" is off; it can be confirmed,
\* declined, or fail with an I/O error (closed stdin, interrupt).
Answers(file) ==
    IF IsExist(file) /\ ~cfg.yes THEN {"confirm", "decline", "error"}
    ELSE {"not asked"}

\* What the file system can do to the write of this file: succeed, fail in
\* utils.CreateIfNotExists (only a missing file or directory is created),
\* fail in os.WriteFile when opening the file, or fail in os.WriteFile after
\* the file was truncated.
FsOutcomes(file) ==
    IF IsExist(file) THEN {"ok", "open fails", "write fails"}
    ELSE {"ok", "create fails", "write fails"}

\* The result of one tryWrite call, with what it did on the way.
WriteResult(written, err, prompted, created, d) ==
    [written |-> written, err |-> err, prompted |-> prompted,
     createCalled |-> created, disk |-> d]

\* Mutant: the prompt is issued for every existing file, "yes" or not.
tryWriteAlwaysPrompt(file, content, answer, fs) ==
    LET prompted == IsExist(file)
        write == IF prompted /\ answer \in {"confirm", "decline"}
                 THEN answer = "confirm" ELSE TRUE
        created == IF IsExist(file) THEN disk
                   ELSE [disk EXCEPT ![file] = EmptyContent]
    IN  IF prompted /\ answer = "error"
        THEN WriteResult(FALSE, "prompt error", prompted, FALSE, disk)
        ELSE IF ~write
        THEN WriteResult(FALSE, NoErr, prompted, FALSE, disk)
        ELSE IF fs = "create fails"
        THEN WriteResult(FALSE, "create error", prompted, TRUE, disk)
        ELSE IF fs = "open fails"
        THEN WriteResult(FALSE, "write error", prompted, TRUE, created)
        ELSE IF fs = "write fails"
        THEN WriteResult(FALSE, "write error", prompted, TRUE,
                         [disk EXCEPT ![file] = EmptyContent])
        ELSE WriteResult(TRUE, NoErr, prompted, TRUE,
                         [disk EXCEPT ![file] = content])

\* Mutant: the answer to the prompt is not looked at.
tryWriteIgnoreAnswer(file, content, answer, fs) ==
    LET prompted == IsExist(file) /\ ~cfg.yes
        created == IF IsExist(file) THEN disk
                   ELSE [disk EXCEPT ![file] = EmptyContent]
    IN  IF prompted /\ answer = "error"
        THEN WriteResult(FALSE, "prompt error", prompted, FALSE, disk)
        ELSE IF fs = "create fails"
        THEN WriteResult(FALSE, "create error", prompted, TRUE, disk)
        ELSE IF fs = "open fails"
        THEN WriteResult(FALSE, "write error", prompted, TRUE, created)
        ELSE IF fs = "write fails"
        THEN WriteResult(FALSE, "write error", prompted, TRUE,
                         [disk EXCEPT ![file] = EmptyContent])
        ELSE WriteResult(TRUE, NoErr, prompted, TRUE,
                         [disk EXCEPT ![file] = content])

\* Mutant: with "yes" off the prompt is issued for a missing file too.
tryWritePromptsMissing(file, content, answer, fs) ==
    LET prompted == ~cfg.yes
        write == IF answer \in {"confirm", "decline", "error"}
                 THEN answer = "confirm" ELSE TRUE
        created == IF IsExist(file) THEN disk
                   ELSE [disk EXCEPT ![file] = EmptyContent]
    IN  IF answer = "error"
        THEN WriteResult(FALSE, "prompt error", prompted, FALSE, disk)
        ELSE IF ~write
        THEN WriteResult(FALSE, NoErr, prompted, FALSE, disk)
        ELSE IF fs = "create fails"
        THEN WriteResult(FALSE, "create error", prompted, TRUE, disk)
        ELSE IF fs = "open fails"
        THEN WriteResult(FALSE, "write error", prompted, TRUE, created)
        ELSE IF fs = "write fails"
        THEN WriteResult(FALSE, "write error", prompted, TRUE,
                         [disk EXCEPT ![file] = EmptyContent])
        ELSE WriteResult(TRUE, NoErr, prompted, TRUE,
                         [disk EXCEPT ![file] = content])

\* tryWrite(file, content): (written, err), the disk it leaves, whether it
\* prompted and whether it got as far as utils.CreateIfNotExists.
tryWrite(file, content, answer, fs) ==
    LET prompted == IsExist(file) /\ ~cfg.yes
        write == IF prompted THEN answer = "confirm" ELSE TRUE
        \* utils.CreateIfNotExists leaves an existing file alone and
        \* creates a missing one empty
        created == IF IsExist(file) THEN disk
                   ELSE [disk EXCEPT ![file] = EmptyContent]
    IN  IF prompted /\ answer = "error"
        THEN WriteResult(FALSE, "prompt error", prompted, FALSE, disk)
        ELSE IF ~write
        THEN WriteResult(FALSE, NoErr, prompted, FALSE, disk)
        ELSE IF fs = "create fails"
        THEN WriteResult(FALSE, "create error", prompted, TRUE, disk)
        ELSE IF fs = "open fails"
        THEN WriteResult(FALSE, "write error", prompted, TRUE, created)
        ELSE IF fs = "write fails"
        THEN WriteResult(FALSE, "write error", prompted, TRUE,
                         [disk EXCEPT ![file] = EmptyContent])
        ELSE WriteResult(TRUE, NoErr, prompted, TRUE,
                         [disk EXCEPT ![file] = content])

-----------------------------------------------------------------------------
(* Dispatch: lang.Generate, one action per stretch of the function between *)
(* two calls whose outcome the function does not control.                  *)

\* cfg.ProjectRoot()
ProjectRoot == <<"/", "w">>

\* filepath.Join(cfg.ProjectRoot(), dir, path)
Join(root, dir, path) == <<root, dir, path>>

\* viper.GetString("code." + key + ".out_dir"): cfg.outDirs holds the
\* out_dir settings by language key; viper compares keys without regard to
\* letter case and answers "" for a key that is not set.
ViperOutDir(key) ==
    IF ToLower(key) \in DOMAIN cfg.outDirs THEN cfg.outDirs[ToLower(key)]
    ELSE <<>>

\* Lines 184-187 for the language string key: its out_dir, or key itself.
OutDirFor(key) == IF ViperOutDir(key) = <<>> THEN key ELSE ViperOutDir(key)

\* Mutant: the directory is looked up under the slug of the resolved generator.
OutDirOfSlug == OutDirFor(gen.slug)

\* dir of Generate
OutDir == OutDirFor(cfg.Lang)

\* The relative paths a generator can return, and the absolute paths under
\* the directories of this configuration: the one of the configured
\* language string and the ones of the registered slugs.
RelPaths == {<<"file", k>> : k \in 1..MaxFiles}
Dirs ==
    {OutDirFor(cfg.Lang)}
        \cup {OutDirFor(SupportedLangs[k].slug) : k \in DOMAIN SupportedLangs}
AbsPaths == {Join(ProjectRoot, d, p) : d \in Dirs, p \in RelPaths}

\* The rendered content of the file at a relative path.
Content(path) == <<"generated", q.TitleSlug, path>>

\* A FileOutput as a generator returns it: Path and Content set, Created
\* and Generator left at their zero values.
FileOutput(path) ==
    [Path |-> path, Content |-> Content(path), Created |-> FALSE,
     Generator |-> Nil]

\* What a generator's Generate can return besides an error: one or more
\* outputs with distinct paths, in the order the generator declares them.
Batches == {[k \in 1..n |-> <<"file", k>>] : n \in 1..MaxFiles}

\* return nil, err / return files, nil
Return(fs, err) ==
    /\ ret' = [files |-> fs, err |-> err]
    /\ pc' = "done"

\* Mutant: the snippet check is missing.
GenerateResolveNoSnippetCheck ==
    /\ pc = "start"
    /\ UNCHANGED renderVars
    /\ gen' = GetGenerator(cfg.Lang)
    /\ IF gen' = Nil
       THEN Return(<<>>, "language not supported")
       ELSE pc' = "bootstrap" /\ ret' = ret
    /\ UNCHANGED <<SupportedLangs, cfg, q, libraryInstalled, disk, state,
                   files, i, calls, writes, start>>

\* Mutant: an unknown language falls back to the first registered generator.
GenerateResolveDefaultLang ==
    /\ pc = "start"
    /\ UNCHANGED renderVars
    /\ gen' = IF GetGenerator(cfg.Lang) = Nil THEN SupportedLangs[1]
              ELSE GetGenerator(cfg.Lang)
    /\ IF GetCodeSnippet(gen'.slug) = <<>>
       THEN Return(<<>>, "no code snippet found")
       ELSE pc' = "bootstrap" /\ ret' = ret
    /\ UNCHANGED <<SupportedLangs, cfg, q, libraryInstalled, disk, state,
                   files, i, calls, writes, start>>

\* Generate, lines 161-170: resolve the generator, check the snippet.
GenerateResolve ==
    /\ pc = "start"
    /\ UNCHANGED renderVars
    /\ gen' = GetGenerator(cfg.Lang)
    /\ IF gen' = Nil
       THEN Return(<<>>, "language not supported")
       ELSE IF GetCodeSnippet(gen'.slug) = <<>>
       THEN Return(<<>>, "no code snippet found")
       ELSE pc' = "bootstrap" /\ ret' = ret
    /\ UNCHANGED <<SupportedLangs, cfg, q, libraryInstalled, disk, state,
                   files, i, calls, writes, start>>

\* Mutant: GenerateLibrary runs for every Testable generator, CheckLibrary
\* is not asked.
GenerateBootstrapAlways ==
    /\ pc = "bootstrap"
    /\ UNCHANGED renderVars
    /\ IF gen.testable
       THEN \E ok \in BOOLEAN :
                 IF ok
                 THEN /\ calls' = Append(calls, "GenerateLibrary: ok")
                      /\ libraryInstalled' = TRUE
                      /\ pc' = "generate" /\ ret' = ret
                 ELSE /\ calls' = Append(calls, "GenerateLibrary: error")
                      /\ UNCHANGED libraryInstalled
                      /\ Return(<<>>, "GenerateLibrary failed")
       ELSE /\ pc' = "generate"
            /\ UNCHANGED <<calls, libraryInstalled, ret>>
    /\ UNCHANGED <<SupportedLangs, cfg, q, disk, state, gen, files, i,
                   writes, start>>

\* Mutant: the error of GenerateLibrary is dropped.
GenerateBootstrapIgnoreError ==
    /\ pc = "bootstrap"
    /\ UNCHANGED renderVars
    /\ IF gen.testable /\ ~libraryInstalled
       THEN \E ok \in BOOLEAN :
                 /\ calls' = calls \o <<"CheckLibrary: absent",
                                        IF ok THEN "GenerateLibrary: ok"
                                        ELSE "GenerateLibrary: error">>
                 /\ libraryInstalled' = ok
                 /\ pc' = "generate" /\ ret' = ret
       ELSE /\ calls' = IF gen.testable
                        THEN Append(calls, "CheckLibrary: present")
                        ELSE calls
            /\ pc' = "generate"
            /\ UNCHANGED <<libraryInstalled, ret>>
    /\ UNCHANGED <<SupportedLangs, cfg, q, disk, state, gen, files, i,
                   writes, start>>

\* Generate, lines 172-177: install the library of a Testable generator
\* that reports it absent; GenerateLibrary succeeds or fails.
GenerateBootstrap ==
    /\ pc = "bootstrap"
    /\ UNCHANGED renderVars
    /\ IF gen.testable /\ ~libraryInstalled
       THEN \E ok \in BOOLEAN :
                 IF ok
                 THEN /\ calls' = calls \o <<"CheckLibrary: absent",
                                             "GenerateLibrary: ok">>
                      /\ libraryInstalled' = TRUE
                      /\ pc' = "generate" /\ ret' = ret
                 ELSE /\ calls' = calls \o <<"CheckLibrary: absent",
                                             "GenerateLibrary: error">>
                      /\ UNCHANGED libraryInstalled
                      /\ Return(<<>>, "GenerateLibrary failed")
       ELSE /\ calls' = IF gen.testable
                        THEN Append(calls, "CheckLibrary: present")
                        ELSE calls
            /\ pc' = "generate"
            /\ UNCHANGED <<libraryInstalled, ret>>
    /\ UNCHANGED <<SupportedLangs, cfg, q, disk, state, gen, files, i,
                   writes, start>>

\* Mutant: the error of the generator's Generate is dropped (files, _ :=).
GenerateFilesIgnoreError ==
    /\ pc = "generate"
    /\ UNCHANGED renderVars
    /\ calls' = Append(calls, "Generate")
    /\ \/ /\ pc' = "save"
          /\ UNCHANGED <<files, i, ret>>
       \/ \E b \in Batches :
            /\ files' = [k \in DOMAIN b |-> FileOutput(b[k])]
            /\ i' = 1
            /\ pc' = "write"
            /\ ret' = ret
    /\ UNCHANGED <<SupportedLangs, cfg, q, libraryInstalled, disk, state,
                   gen, writes, start>>

\* Generate, lines 179-187: the generator's Generate returns an error or a
\* batch of outputs.
GenerateFiles ==
    /\ pc = "generate"
    /\ UNCHANGED renderVars
    /\ calls' = Append(calls, "Generate")
    /\ \/ /\ Return(<<>>, "Generate failed")
          /\ UNCHANGED <<files, i>>
       \/ \E b \in Batches :
            /\ files' = [k \in DOMAIN b |-> FileOutput(b[k])]
            /\ i' = 1
            /\ pc' = "write"
            /\ ret' = ret
    /\ UNCHANGED <<SupportedLangs, cfg, q, libraryInstalled, disk, state,
                   gen, writes, start>>

\* What the model remembers of one tryWrite call.
WriteRecord(file, content, answer, fs, r) ==
    [file |-> file, content |-> content, existed |-> IsExist(file),
     yes |-> cfg.yes, answer |-> answer, fs |-> fs,
     prompted |-> r.prompted, createCalled |-> r.createCalled,
     written |-> r.written, err |-> r.err,
     before |-> disk[file], after |-> r.disk[file],
     othersUnchanged |-> \A f \in DOMAIN disk : f # file => r.disk[f] = disk[f]]

\* Mutant: an error of tryWrite is returned to the caller.
GenerateWriteAbortOnError ==
    /\ pc = "write"
    /\ UNCHANGED renderVars
    /\ i <= Len(files)
    /\ LET path == Join(ProjectRoot, OutDir, files[i].Path) IN
       \E answer \in Answers(path) : \E fs \in FsOutcomes(path) :
         LET r == tryWrite(path, files[i].Content, answer, fs) IN
           /\ disk' = r.disk
           /\ writes' = Append(writes,
                          WriteRecord(path, files[i].Content, answer, fs, r))
           /\ files' = [files EXCEPT ![i] =
                          [Path |-> path, Content |-> @.Content,
                           Created |-> IF r.err # NoErr THEN @.Created
                                       ELSE r.written,
                           Generator |-> gen]]
           /\ IF r.err # NoErr
              THEN Return(<<>>, r.err)
              ELSE /\ pc' = IF i = Len(files) THEN "save" ELSE "write"
                   /\ ret' = ret
    /\ i' = i + 1
    /\ calls' = Append(calls, "tryWrite")
    /\ UNCHANGED <<SupportedLangs, cfg, q, libraryInstalled, state, gen,
                   start>>

\* Mutant: the loop ends at the first error of tryWrite (break for continue).
GenerateWriteBreakOnError ==
    /\ pc = "write"
    /\ UNCHANGED renderVars
    /\ i <= Len(files)
    /\ LET path == Join(ProjectRoot, OutDir, files[i].Path) IN
       \E answer \in Answers(path) : \E fs \in FsOutcomes(path) :
         LET r == tryWrite(path, files[i].Content, answer, fs) IN
           /\ disk' = r.disk
           /\ writes' = Append(writes,
                          WriteRecord(path, files[i].Content, answer, fs, r))
           /\ files' = [files EXCEPT ![i] =
                          [Path |-> path, Content |-> @.Content,
                           Created |-> IF r.err # NoErr THEN @.Created
                                       ELSE r.written,
                           Generator |-> gen]]
           /\ pc' = IF i = Len(files) \/ r.err # NoErr THEN "save"
                    ELSE "write"
    /\ i' = i + 1
    /\ calls' = Append(calls, "tryWrite")
    /\ UNCHANGED <<SupportedLangs, cfg, q, libraryInstalled, state, gen,
                   ret, start>>

\* Mutant: the state is saved inside the loop, after every tryWrite.
GenerateWriteSavesState ==
    /\ pc = "write"
    /\ UNCHANGED renderVars
    /\ i <= Len(files)
    /\ LET path == Join(ProjectRoot, OutDir, files[i].Path) IN
       \E answer \in Answers(path) : \E fs \in FsOutcomes(path) :
         LET r == tryWrite(path, files[i].Content, answer, fs) IN
           /\ disk' = r.disk
           /\ writes' = Append(writes,
                          WriteRecord(path, files[i].Content, answer, fs, r))
           /\ files' = [files EXCEPT ![i] =
                          [Path |-> path, Content |-> @.Content,
                           Created |-> IF r.err # NoErr THEN @.Created
                                       ELSE r.written,
                           Generator |-> gen]]
    /\ i' = i + 1
    /\ pc' = IF i = Len(files) THEN "save" ELSE "write"
    /\ calls' = calls \o <<"tryWrite", "SaveState">>
    /\ state' = [state EXCEPT !.LastGenerated =
                    [Slug |-> q.TitleSlug,
                     FrontendID |-> q.QuestionFrontendId,
                     Gen |-> gen.slug]]
    /\ UNCHANGED <<SupportedLangs, cfg, q, libraryInstalled, gen,
                   ret, start>>

\* Generate, lines 189-199: one iteration of the write loop.
GenerateWrite ==
    /\ pc = "write"
    /\ UNCHANGED renderVars
    /\ i <= Len(files)
    /\ LET path == Join(ProjectRoot, OutDir, files[i].Path) IN
       \E answer \in Answers(path) : \E fs \in FsOutcomes(path) :
         LET r == tryWrite(path, files[i].Content, answer, fs) IN
           /\ disk' = r.disk
           /\ writes' = Append(writes,
                          WriteRecord(path, files[i].Content, answer, fs, r))
           /\ files' = [files EXCEPT ![i] =
                          [Path |-> path, Content |-> @.Content,
                           Created |-> IF r.err # NoErr THEN @.Created
                                       ELSE r.written,
                           Generator |-> gen]]
    /\ i' = i + 1
    /\ pc' = IF i = Len(files) THEN "save" ELSE "write"
    /\ calls' = Append(calls, "tryWrite")
    /\ UNCHANGED <<SupportedLangs, cfg, q, libraryInstalled, state, gen,
                   ret, start>>

\* Mutant: the record is saved only when every output was created.
GenerateSaveIfAllCreated ==
    /\ pc = "save"
    /\ UNCHANGED renderVars
    /\ state' = IF \A k \in DOMAIN files : files[k].Created
                 THEN [state EXCEPT !.LastGenerated =
                         [Slug |-> q.TitleSlug,
                          FrontendID |-> q.QuestionFrontendId,
                          Gen |-> gen.slug]]
                 ELSE state
    /\ calls' = Append(calls, "SaveState")
    /\ Return(files, NoErr)
    /\ UNCHANGED <<SupportedLangs, cfg, q, libraryInstalled, disk, gen,
                   files, i, writes, start>>

\* Generate, lines 201-209: record the problem and return the outputs.
GenerateSave ==
    /\ pc = "save"
    /\ UNCHANGED renderVars
    /\ state' = [state EXCEPT !.LastGenerated =
                    [Slug |-> q.TitleSlug,
                     FrontendID |-> q.QuestionFrontendId,
                     Gen |-> gen.slug]]
    /\ calls' = Append(calls, "SaveState")
    /\ Return(files, NoErr)
    /\ UNCHANGED <<SupportedLangs, cfg, q, libraryInstalled, disk, gen,
                   files, i, writes, start>>

-----------------------------------------------------------------------------
(* Spec: one run of lang.Generate on a registry of two generators *)

Python3 == Generator(<<"p","y","t","h","o","n","3">>, <<"p","y">>, TRUE)
Java == Generator(<<"j","a","v","a">>, <<"j","a","v","a">>, FALSE)

\* Configured language identifiers: a shortName, the same in another letter
\* case, a slug, a prefix of a slug, and a language nobody registered.
SampleIdents ==
    {<<"p","y">>, <<"P","y">>, <<"p","y","t","h","o","n","3">>, <<"j","a">>,
     <<"r","b">>}

\* The out_dir settings: none, one under the shortName py, one under the
\* slug python3.
OutDirTables ==
    {<<>>, Python3.shortName :> <<"o","u","t">>, Python3.slug :> <<"o","u","t">>}

\* The record a previous run left behind.
PreviousRecord ==
    [Slug |-> "lru-cache", FrontendID |-> "146", Gen |-> Java.slug]

Init ==
    /\ SupportedLangs = <<Python3, Java>>
    /\ cfg \in [Lang : SampleIdents, outDirs : OutDirTables, yes : BOOLEAN]
    /\ q \in [TitleSlug : {"two-sum"}, QuestionFrontendId : {"1"},
              CodeSnippets : [{Python3.slug, Java.slug} -> {<<>>, <<"class Solution">>}]]
    /\ libraryInstalled \in BOOLEAN
    /\ disk \in {[f \in AbsPaths |->
                     IF f[2] = OutDirFor(cfg.Lang) THEN old[f[3]] ELSE NoFile]
                  : old \in [RelPaths -> {NoFile, OldContent}]}
    /\ state \in [LastGenerated : {ZeroRecord, PreviousRecord}]
    /\ pc = "start"
    /\ now = 0
    /\ lang = Nil
    /\ modifiers = <<>>
    /\ rendered = <<>>
    /\ coded = NoCode
    /\ gen = Nil
    /\ files = <<>>
    /\ i = 1
    /\ ret = [files |-> <<>>, err |-> NoErr]
    /\ calls = <<>>
    /\ writes = <<>>
    /\ start = [disk |-> disk, state |-> state,
                libraryInstalled |-> libraryInstalled]

Next ==
    \/ GenerateResolve
    \/ GenerateBootstrap
    \/ GenerateFiles
    \/ GenerateWrite
    \/ GenerateSave

Spec == Init /\ [][Next]_vars

-----------------------------------------------------------------------------
(* SpecRender: what a baseLang renders. A string is the sequence of its   *)
(* pieces, NL being the newline character; the clock advances between the *)
(* calls.                                                                  *)

MaxClock == 3
MaxCalls == 2
MaxMods == 2

\* Clock ticks in one minute, the resolution of the layout "2006/01/02 15:04".
TicksPerMinute == 2

NL == "\n"

\* Mutant: the layout also shows the part of the time below the minute.
FormatTimeSeconds(t) == ToString(t)

\* time.Now().Format("2006/01/02 15:04")
FormatTime(t) == ToString(t \div TicksPerMinute)

\* strings.Join(content, "\n")
RECURSIVE JoinLines(_)
JoinLines(content) ==
    IF content = <<>> THEN <<>>
    ELSE IF Len(content) = 1 THEN content[1]
    ELSE content[1] \o <<NL>> \o JoinLines(Tail(content))

\* Mutant: the last, empty element of content is not appended.
generateCommentsNoTrailer(l) ==
    JoinLines(
        << <<l.lineComment, " Created by ", cfg.Author, " at ", FormatTime(now)>>,
           <<l.lineComment, " ", q.Url>> >>
        \o (IF q.IsContest THEN << <<l.lineComment, " ", q.ContestUrl>> >>
            ELSE <<>>)
        \o << <<>>,
              <<l.blockCommentStart>>,
              <<q.QuestionFrontendId, ".", q.Title, " (", q.Difficulty, ")">>,
              <<>>,
              q.FormattedContent,
              <<l.blockCommentEnd>> >>)

\* baseLang.generateComments
generateComments(l) ==
    JoinLines(
        << <<l.lineComment, " Created by ", cfg.Author, " at ", FormatTime(now)>>,
           <<l.lineComment, " ", q.Url>> >>
        \o (IF q.IsContest THEN << <<l.lineComment, " ", q.ContestUrl>> >>
            ELSE <<>>)
        \o << <<>>,
              <<l.blockCommentStart>>,
              <<q.QuestionFrontendId, ".", q.Title, " (", q.Difficulty, ")">>,
              <<>>,
              q.FormattedContent,
              <<l.blockCommentEnd>>,
              <<>> >>)

\* Mutant: the two marks change places.
addCodeMarkSwapped(commentMark, s) ==
    <<commentMark, " ", cfg.CodeEndMark, NL, NL>> \o s
        \o <<NL, NL, commentMark, " ", cfg.CodeBeginMark>>

\* The Modifier addCodeMark(commentMark) applied to s.
addCodeMark(commentMark, s) ==
    <<commentMark, " ", cfg.CodeBeginMark, NL, NL>> \o s
        \o <<NL, NL, commentMark, " ", cfg.CodeEndMark>>

removeComments(code) == code

\* The Modifier prepend(s) applied to code.
prepend(s, code) == s \o code

\* A Modifier value: which function it is and the argument it has closed over.
Modifier(kind, arg) == [kind |-> kind, arg |-> arg]

\* m(code, q)
Apply(m, code) ==
    CASE m.kind = "addCodeMark" -> addCodeMark(m.arg[1], code)
      [] m.kind = "removeComments" -> removeComments(code)
      [] m.kind = "prepend" -> prepend(m.arg, code)

\* for _, m := range modifiers { code = m(code, q) }, from index k on
RECURSIVE RangeModifiers(_, _, _)
RangeModifiers(mods, k, code) ==
    IF k > Len(mods) THEN code
    ELSE RangeModifiers(mods, k + 1, Apply(mods[k], code))

\* The same loop running from the last modifier down to the first.
RECURSIVE RangeModifiersDown(_, _, _)
RangeModifiersDown(mods, k, code) ==
    IF k < 1 THEN code
    ELSE RangeModifiersDown(mods, k - 1, Apply(mods[k], code))

\* Mutant: the modifiers are applied from the last to the first.
generateCodeReversed(l, mods) ==
    RangeModifiersDown(mods, Len(mods), GetCodeSnippet(l.slug))

\* baseLang.generateCode
generateCode(l, mods) == RangeModifiers(mods, 1, GetCodeSnippet(l.slug))

GoodTemplate == <<"{{ .Id }}.{{ .Slug }}">>
BadTemplate == <<"{{ .Id ">>

getFilenameTemplate(l) ==
    IF cfg.FilenameTemplate # <<>> THEN cfg.FilenameTemplate
    ELSE IF l.slug \in DOMAIN cfg.langTemplates THEN cfg.langTemplates[l.slug]
    ELSE <<>>

\* q.GetFormattedFilename(lang, filenameTemplate): (name, err)
GetFormattedFilename(slug, tmpl) ==
    IF tmpl = BadTemplate THEN [name |-> <<>>, err |-> "template error"]
    ELSE IF tmpl = <<>> THEN [name |-> <<>>, err |-> NoErr]
    ELSE [name |-> <<q.QuestionFrontendId, ".", q.TitleSlug>>, err |-> NoErr]

\* baseLang.Generate: (files, err)
baseLangGenerate(l) ==
    LET comment == generateComments(l)
        code == generateCode(l, <<Modifier("addCodeMark", <<l.lineComment>>)>>)
        content == comment \o <<NL>> \o code \o <<NL>>
        filenameTmpl == getFilenameTemplate(l)
        formatted == GetFormattedFilename(l.slug, filenameTmpl)
    IN  IF formatted.err # NoErr
        THEN [files |-> <<>>, err |-> formatted.err]
        ELSE [files |-> << [Path |-> formatted.name \o <<".", l.extension>>,
                            Content |-> content] >>,
              err |-> NoErr]

baseLang(g, extension, lineComment, blockCommentStart, blockCommentEnd) ==
    [slug |-> g.slug, shortName |-> g.shortName, extension |-> extension,
     lineComment |-> lineComment, blockCommentStart |-> blockCommentStart,
     blockCommentEnd |-> blockCommentEnd]

BaseLangs ==
    {baseLang(Python3, "py", "#", "\"\"\"", "\"\"\""),
     baseLang(Java, "java", "//", "/*", "*/")}

\* The starter snippets: one line, several lines.
Snippets ==
    {<<"class Solution:">>,
     <<"class Solution:", NL, "    pass">>}

\* The modifiers a generator may pass; an argument list has up to MaxMods.
Modifiers ==
    {Modifier("addCodeMark", <<"#">>), Modifier("removeComments", <<>>),
     Modifier("prepend", <<"import x", NL>>)}

Chains == UNION {[1..n -> Modifiers] : n \in 0..MaxMods}

InitRender ==
    /\ SupportedLangs = <<Python3, Java>>
    /\ lang \in BaseLangs
    /\ \E snippet \in Snippets, contest \in BOOLEAN :
          q = [TitleSlug |-> "two-sum", QuestionFrontendId |-> "1",
               CodeSnippets |-> [sl \in {Python3.slug, Java.slug} |-> snippet],
               Title |-> "Two Sum", Difficulty |-> "Easy",
               Url |-> "https://leetcode.com/problems/two-sum/",
               IsContest |-> contest,
               ContestUrl |-> "https://leetcode.com/contest/w1/problems/two-sum/",
               FormattedContent |-> <<"Given an array of integers,", NL,
                                      "return two indices.">>]
    /\ \E tmpl \in {<<>>, GoodTemplate},
          langTmpl \in {<<>>, lang.slug :> BadTemplate} :
          cfg = [Lang |-> lang.slug, outDirs |-> <<>>, yes |-> FALSE,
                 Author |-> "alex", CodeBeginMark |-> "@lc code=begin",
                 CodeEndMark |-> "@lc code=end",
                 FilenameTemplate |-> tmpl, langTemplates |-> langTmpl]
    /\ libraryInstalled = FALSE
    /\ disk = <<>>
    /\ state = [LastGenerated |-> ZeroRecord]
    /\ pc = "render"
    /\ now = 0
    /\ modifiers = <<>>
    /\ rendered = <<>>
    /\ coded = NoCode
    /\ gen = Nil
    /\ files = <<>>
    /\ i = 1
    /\ ret = [files |-> <<>>, err |-> NoErr]
    /\ calls = <<>>
    /\ writes = <<>>
    /\ start = [disk |-> disk, state |-> state,
                libraryInstalled |-> libraryInstalled]

dispatchVars == <<SupportedLangs, cfg, q, libraryInstalled, disk, state, pc,
                  gen, files, i, ret, calls, writes, start>>

\* Time passes.
Tick ==
    /\ pc = "render"
    /\ now < MaxClock
    /\ now' = now + 1
    /\ UNCHANGED <<lang, modifiers, rendered, coded>>
    /\ UNCHANGED dispatchVars

\* files, err := l.Generate(q)
CallGenerate ==
    /\ pc = "render"
    /\ Len(rendered) < MaxCalls
    /\ rendered' = Append(rendered, [files |-> baseLangGenerate(lang).files,
                                     err |-> baseLangGenerate(lang).err,
                                     at |-> now])
    /\ UNCHANGED <<now, lang, modifiers, coded>>
    /\ UNCHANGED dispatchVars

\* code := l.generateCode(q, modifiers...), the one call that is followed
CallGenerateCode ==
    /\ pc = "render"
    /\ ~coded.called
    /\ \E mods \in Chains :
          /\ modifiers' = mods
          /\ coded' = [called |-> TRUE, code |-> generateCode(lang, mods)]
    /\ UNCHANGED <<now, lang, rendered>>
    /\ UNCHANGED dispatchVars

NextRender == Tick \/ CallGenerate \/ CallGenerateCode

SpecRender == InitRender /\ [][NextRender]_vars

-----------------------------------------------------------------------------
(* Claims about GetGenerator, checked under SpecResolve *)

\* The registered generators that match the lowered identifier, by index.
MatchingIndexes(ident) ==
    {k \in DOMAIN SupportedLangs : Matches(SupportedLangs[k], ToLower(ident))}

\* The registered generators of which ident is a prefix when letter case is
\* ignored on both sides, by index.
FoldedMatchingIndexes(ident) ==
    {k \in DOMAIN SupportedLangs :
        \/ HasPrefix(ToLower(SupportedLangs[k].shortName), ToLower(ident))
        \/ HasPrefix(ToLower(SupportedLangs[k].slug), ToLower(ident))}

\* The smallest element of a non-empty set of indexes.
First(S) == CHOOSE k \in S : \A j \in S : k <= j

\* The identifier is the slug or the shortName of the k-th generator.
IsNameOf(ident, k) ==
    ident = SupportedLangs[k].slug \/ ident = SupportedLangs[k].shortName

\* Every registered name is lower-case and no name of one generator is a
\* name of another.
LowerCaseDistinctNames ==
    /\ \A k \in DOMAIN SupportedLangs :
          /\ ToLower(SupportedLangs[k].slug) = SupportedLangs[k].slug
          /\ ToLower(SupportedLangs[k].shortName) = SupportedLangs[k].shortName
    /\ \A j \in DOMAIN SupportedLangs : \A k \in DOMAIN SupportedLangs :
          j # k => ~IsNameOf(SupportedLangs[j].slug, k)
                   /\ ~IsNameOf(SupportedLangs[j].shortName, k)

\* C9 as stated, already on the registries whose names are lower-case and
\* distinct: resolving the slug or the shortName of a registered generator
\* returns that generator, whatever the order and the other names.
C9_ResolveOwnNameAlways ==
    (pc = "resolved" /\ LowerCaseDistinctNames) =>
        \A k \in DOMAIN SupportedLangs :
            IsNameOf(cfg.Lang, k) => gen = SupportedLangs[k]

\* C9: resolving the slug or the shortName of a registered generator g
\* returns g when that name has no upper-case letter and no generator
\* registered before g has it as a prefix of its shortName or slug.
C9_ResolveOwnName ==
    pc = "resolved" =>
        \A k \in DOMAIN SupportedLangs :
            ( /\ IsNameOf(cfg.Lang, k)
              /\ ToLower(cfg.Lang) = cfg.Lang
              /\ \A j \in 1..(k - 1) : ~Matches(SupportedLangs[j], cfg.Lang) )
            => gen = SupportedLangs[k]

\* The slug of the second generator was resolved to that generator, and the
\* first generator is not a match.
C9_Witness ==
    /\ pc = "resolved"
    /\ Len(SupportedLangs) = 2
    /\ cfg.Lang = SupportedLangs[2].slug
    /\ cfg.Lang # SupportedLangs[2].shortName
    /\ ToLower(cfg.Lang) = cfg.Lang
    /\ ~Matches(SupportedLangs[1], cfg.Lang)
    /\ gen = SupportedLangs[2]

SameUpToCase(a, b) ==
    /\ Len(a) = Len(b)
    /\ \A k \in DOMAIN a : LowerChar(a[k]) = LowerChar(b[k])

\* C11: an identifier that differs from the resolved one only in letter
\* case resolves to the same generator, or to nil as well, whatever the
\* letter case of the registered names.
C11_CaseInsensitiveIdentifier ==
    pc = "resolved" =>
        \A other \in Idents :
            SameUpToCase(other, cfg.Lang) => GetGenerator(other) = gen

\* An identifier with an upper-case letter was resolved to a generator with
\* an upper-case letter in a name, and so is its lower-case form.
C11_Witness ==
    /\ pc = "resolved"
    /\ cfg.Lang = <<"a", "A">>
    /\ gen # Nil
    /\ ToLower(gen.slug) # gen.slug
    /\ GetGenerator(<<"a", "a">>) = gen

-----------------------------------------------------------------------------
(* Claims about lang.Generate and tryWrite, checked under Spec *)

\* The call was made at least once.
Called(op) == \E k \in DOMAIN calls : calls[k] = op

\* The positions in calls of the GenerateLibrary invocations.
LibraryCalls ==
    {k \in DOMAIN calls :
        calls[k] \in {"GenerateLibrary: ok", "GenerateLibrary: error"}}

\* Nothing on disk and nothing in the persisted state has changed since
\* Generate was called, and no write was attempted.
NothingTouched ==
    /\ disk = start.disk
    /\ state = start.state
    /\ writes = <<>>

\* The record Generate persists for this problem and the resolved generator.
ExpectedRecord ==
    [Slug |-> q.TitleSlug, FrontendID |-> q.QuestionFrontendId,
     Gen |-> gen.slug]

\* C1: once the generator is resolved and the problem has no snippet for its
\* slug, Generate has returned an error, nothing was written, the
\* LastGenerated record is untouched and neither GenerateLibrary nor the
\* generator's Generate was invoked.
C1_SnippetMissing ==
    (pc # "start" /\ gen # Nil /\ GetCodeSnippet(gen.slug) = <<>>) =>
        /\ pc = "done"
        /\ ret.err = "no code snippet found"
        /\ ret.files = <<>>
        /\ NothingTouched
        /\ LibraryCalls = {}
        /\ ~Called("Generate")

\* A Testable generator with its library absent was resolved from a
\* shortName, the problem has no snippet for it, a previous record exists.
C1_Witness ==
    /\ pc = "done"
    /\ gen = Python3
    /\ cfg.Lang = Python3.shortName
    /\ GetCodeSnippet(Python3.slug) = <<>>
    /\ GetCodeSnippet(Java.slug) # <<>>
    /\ ~start.libraryInstalled
    /\ start.state.LastGenerated = PreviousRecord
    /\ \E f \in DOMAIN disk : disk[f] = OldContent
    /\ ret.err = "no code snippet found"

\* The run has got past the library check of lines 172-177.
PastBootstrap ==
    \/ pc \in {"generate", "write", "save"}
    \/ /\ pc = "done"
       /\ ret.err \notin {"language not supported", "no code snippet found"}

\* C2: in a run that reaches the library check with a Testable generator
\* whose library is absent, GenerateLibrary is invoked exactly once and
\* before the generator's Generate; in every other run, and before the
\* check, it is not invoked at all.
C2_LibraryOnceBeforeGenerate ==
    IF PastBootstrap /\ gen.testable /\ ~start.libraryInstalled
    THEN /\ Cardinality(LibraryCalls) = 1
         /\ Called("CheckLibrary: absent")
         /\ \A j \in LibraryCalls : \A k \in DOMAIN calls :
               calls[k] = "Generate" => j < k
    ELSE LibraryCalls = {}

\* The library was absent, was installed, and Generate ran after that.
C2_Witness ==
    /\ pc = "done"
    /\ ret.err = NoErr
    /\ gen.testable
    /\ ~start.libraryInstalled
    /\ calls[2] = "GenerateLibrary: ok"
    /\ calls[3] = "Generate"

\* C3: when GenerateLibrary has failed, Generate has returned that error
\* with no FileOutput, the generator's Generate was not called, nothing was
\* written and the LastGenerated record is untouched.
C3_LibraryFailureAborts ==
    Called("GenerateLibrary: error") =>
        /\ pc = "done"
        /\ ret.err = "GenerateLibrary failed"
        /\ ret.files = <<>>
        /\ files = <<>>
        /\ ~Called("Generate")
        /\ NothingTouched

\* GenerateLibrary failed in a run that had a previous record and an
\* existing file in the output directory.
C3_Witness ==
    /\ Called("GenerateLibrary: error")
    /\ pc = "done"
    /\ start.state.LastGenerated = PreviousRecord
    /\ \E f \in DOMAIN disk : disk[f] = OldContent

\* C4: when Generate has returned after reaching the write loop, the
\* LastGenerated record is exactly {TitleSlug, QuestionFrontendId, slug of
\* the resolved generator}, whatever became of the single writes.
C4_LastGeneratedRecorded ==
    (pc = "done" /\ files # <<>>) =>
        /\ state = [LastGenerated |-> ExpectedRecord]
        /\ ret.err = NoErr

\* A run resolved from a shortName in which one write was declined and one
\* failed replaced the previous record.
C4_Witness ==
    /\ pc = "done"
    /\ cfg.Lang = Python3.shortName
    /\ start.state.LastGenerated = PreviousRecord
    /\ \E k \in DOMAIN writes : writes[k].answer = "decline"
    /\ \E k \in DOMAIN writes : writes[k].err = "write error"
    /\ \A k \in DOMAIN ret.files : ~ret.files[k].Created
    /\ state.LastGenerated = ExpectedRecord

\* C5 as stated: a failed confirmation prompt aborts the call: Generate
\* returns an error and attempts no further output.
C5_PromptFailureAborts ==
    pc = "done" =>
        \A k \in DOMAIN writes :
            writes[k].err = "prompt error" =>
                /\ ret.err # NoErr
                /\ k = Len(writes)

\* C5: a failed confirmation prompt is only logged: the output keeps
\* Created = false and its file is left as it was, every later output is
\* still attempted, the LastGenerated record is saved and Generate returns
\* the full list of outputs with a nil error.
C5_PromptFailureSkipsOutput ==
    pc = "done" =>
        \A k \in DOMAIN writes :
            writes[k].err = "prompt error" =>
                /\ ret.err = NoErr
                /\ Len(ret.files) = Len(files)
                /\ Len(writes) = Len(files)
                /\ ~ret.files[k].Created
                /\ writes[k].after = writes[k].before
                /\ writes[k].othersUnchanged
                /\ state = [LastGenerated |-> ExpectedRecord]

\* The prompt for the first output failed and the second output was written.
C5_Witness ==
    /\ pc = "done"
    /\ Len(writes) = 2
    /\ writes[1].err = "prompt error"
    /\ writes[2].written
    /\ ret.files[2].Created

\* The errors tryWrite returns for a failure of the file system.
FsErrors == {"create error", "write error"}

\* C6: when the file system failed for one output, that output is returned
\* with Created = false, every output of the batch was attempted in the
\* generator's order, the outputs that were written are on disk, and
\* Generate returns the full list with a nil error.
C6_WriteFailureSkipsOutput ==
    pc = "done" =>
        \A k \in DOMAIN writes :
            writes[k].err \in FsErrors =>
                /\ ret.err = NoErr
                /\ ~ret.files[k].Created
                /\ writes[k].othersUnchanged
                /\ Len(ret.files) = Len(files)
                /\ Len(writes) = Len(files)
                /\ \A j \in DOMAIN writes :
                      /\ writes[j].file = Join(ProjectRoot, OutDir, <<"file", j>>)
                      /\ ret.files[j].Path = writes[j].file
                      /\ writes[j].written =>
                            /\ ret.files[j].Created
                            /\ disk[writes[j].file] = writes[j].content

\* The write of the first output failed and the second output was written.
C6_Witness ==
    /\ pc = "done"
    /\ Len(writes) = 2
    /\ writes[1].err = "write error"
    /\ writes[2].written
    /\ disk[writes[2].file] = writes[2].content

\* C7: a tryWrite on an existing file, with "yes" off and the prompt
\* declined, changes nothing on disk, does not reach CreateIfNotExists, and
\* returns (false, nil).
C7_DeclineKeepsFile ==
    \A k \in DOMAIN writes :
        (writes[k].existed /\ ~writes[k].yes /\ writes[k].answer = "decline") =>
            /\ writes[k].after = writes[k].before
            /\ writes[k].othersUnchanged
            /\ ~writes[k].createCalled
            /\ ~writes[k].written
            /\ writes[k].err = NoErr

\* The overwrite of an existing file was declined and the file is as before.
C7_Witness ==
    \E k \in DOMAIN writes :
        /\ writes[k].existed
        /\ ~cfg.yes
        /\ writes[k].answer = "decline"
        /\ writes[k].before = OldContent
        /\ disk[writes[k].file] = OldContent

\* C8 as stated: with "yes" on, a tryWrite on an existing file never
\* prompts, always leaves the new content in the file and returns true.
C8_YesAlwaysOverwrites ==
    \A k \in DOMAIN writes :
        (writes[k].existed /\ writes[k].yes) =>
            /\ ~writes[k].prompted
            /\ writes[k].written
            /\ writes[k].after = writes[k].content

\* C8: with "yes" on, a tryWrite on an existing file never prompts and
\* always goes on to write; it leaves the new content in the file and
\* returns (true, nil) unless the file system fails, and then it returns
\* false with the error.
C8_YesNeverPrompts ==
    \A k \in DOMAIN writes :
        (writes[k].existed /\ writes[k].yes) =>
            /\ ~writes[k].prompted
            /\ writes[k].createCalled
            /\ IF writes[k].fs = "ok"
               THEN /\ writes[k].written
                    /\ writes[k].err = NoErr
                    /\ writes[k].after = writes[k].content
               ELSE /\ ~writes[k].written
                    /\ writes[k].err \in FsErrors

\* With "yes" on, an existing file was overwritten without a prompt.
C8_Witness ==
    \E k \in DOMAIN writes :
        /\ writes[k].existed
        /\ cfg.yes
        /\ writes[k].before = OldContent
        /\ ~writes[k].prompted
        /\ writes[k].written
        /\ disk[writes[k].file] = writes[k].content

\* C12: when no registered generator matches the configured language,
\* Generate has returned the "not supported" error and done nothing else: no
\* call of the library, of the generator or of tryWrite, no file and no
\* record changed.
C12_LanguageUnsupported ==
    (pc # "start" /\ GetGenerator(cfg.Lang) = Nil) =>
        /\ gen = Nil
        /\ pc = "done"
        /\ ret.err = "language not supported"
        /\ ret.files = <<>>
        /\ calls = <<>>
        /\ NothingTouched
        /\ libraryInstalled = start.libraryInstalled

\* An unregistered language was configured while every snippet, a previous
\* record and an old file were there.
C12_Witness ==
    /\ pc = "done"
    /\ cfg.Lang = <<"r", "b">>
    /\ gen = Nil
    /\ GetCodeSnippet(Python3.slug) # <<>>
    /\ GetCodeSnippet(Java.slug) # <<>>
    /\ start.state.LastGenerated = PreviousRecord
    /\ \E f \in DOMAIN disk : disk[f] = OldContent
    /\ ret.err = "language not supported"

\* The positions in calls at which the state was saved.
SaveCalls == {k \in DOMAIN calls : calls[k] = "SaveState"}

\* C13: in a run the state is saved at most once, only after tryWrite was
\* called for every output of the batch, and not at all when Generate
\* returns an error; until it is saved the record is the one found.
C13_StateSavedOnceAfterWrites ==
    /\ Cardinality(SaveCalls) <= 1
    /\ SaveCalls = {} => state = start.state
    /\ \A k \in SaveCalls :
          /\ files # <<>>
          /\ Len(writes) = Len(files)
          /\ Cardinality({j \in 1..(k - 1) : calls[j] = "tryWrite"}) = Len(files)
          /\ \A j \in DOMAIN calls : j > k => calls[j] # "tryWrite"
    /\ (pc = "done" /\ ret.err # NoErr) => SaveCalls = {}

\* The state was saved after both outputs of a batch were attempted.
C13_Witness ==
    /\ pc = "done"
    /\ Len(writes) = 2
    /\ SaveCalls = {Len(calls)}
    /\ state # start.state

\* C17 as stated: a tryWrite on a missing file never prompts, creates what
\* is missing, writes the content and returns true.
C17_MissingFileAlwaysWritten ==
    \A k \in DOMAIN writes :
        ~writes[k].existed =>
            /\ ~writes[k].prompted
            /\ writes[k].createCalled
            /\ writes[k].written
            /\ writes[k].after = writes[k].content

\* C17: a tryWrite on a missing file never prompts, with "yes" on or off,
\* and always goes on to create and write; it leaves the content in the
\* file and returns (true, nil) unless the file system fails, and then it
\* returns false with the error and leaves no file or an empty one.
C17_MissingFileNeverPrompts ==
    \A k \in DOMAIN writes :
        ~writes[k].existed =>
            /\ ~writes[k].prompted
            /\ writes[k].answer = "not asked"
            /\ writes[k].createCalled
            /\ IF writes[k].fs = "ok"
               THEN /\ writes[k].written
                    /\ writes[k].err = NoErr
                    /\ writes[k].after = writes[k].content
               ELSE /\ ~writes[k].written
                    /\ writes[k].err \in FsErrors
                    /\ writes[k].after \in {NoFile, EmptyContent}

\* With "yes" off, a missing file was written without a prompt.
C17_Witness ==
    \E k \in DOMAIN writes :
        /\ ~writes[k].existed
        /\ ~cfg.yes
        /\ writes[k].before = NoFile
        /\ ~writes[k].prompted
        /\ writes[k].written
        /\ disk[writes[k].file] = writes[k].content

\* The generator's Generate was called and returned an error.
GenerateFailed == Called("Generate") /\ files = <<>>

\* C19: when the generator's Generate has failed, Generate has returned that
\* error with no FileOutput, has attempted no write and has left the disk
\* and the LastGenerated record as they were, also after a successful
\* installation of the library.
C19_GenerateFailureAborts ==
    GenerateFailed =>
        /\ pc = "done"
        /\ ret.err = "Generate failed"
        /\ ret.files = <<>>
        /\ NothingTouched
        /\ SaveCalls = {}

\* The library was installed and the generator's Generate then failed.
C19_Witness ==
    /\ GenerateFailed
    /\ pc = "done"
    /\ Called("GenerateLibrary: ok")
    /\ ~start.libraryInstalled
    /\ start.state.LastGenerated = PreviousRecord
    /\ \E f \in DOMAIN disk : disk[f] = OldContent

\* C20: every output of a successful Generate carries the resolved
\* generator and the path root/dir/relative path, created or not, where dir
\* is the out_dir set under the configured language string, or that string
\* itself when none is set, and not what the slug of the resolved generator
\* would give; a different string that resolves to the same generator, with
\* no out_dir set either, names another directory.
C20_OutputPathAndGenerator ==
    (pc = "done" /\ ret.err = NoErr) =>
        \A k \in DOMAIN ret.files :
            /\ gen = GetGenerator(cfg.Lang)
            /\ ret.files[k].Generator = gen
            /\ ret.files[k].Path =
                  Join(ProjectRoot,
                       IF ViperOutDir(cfg.Lang) # <<>>
                       THEN ViperOutDir(cfg.Lang) ELSE cfg.Lang,
                       <<"file", k>>)
            /\ ViperOutDir(cfg.Lang) = <<>> =>
                  /\ ret.files[k].Path[2] = cfg.Lang
                  /\ \A other \in SampleIdents :
                        ( /\ other # cfg.Lang
                          /\ GetGenerator(other) = gen
                          /\ ViperOutDir(other) = <<>> )
                        => ret.files[k].Path[2] # other

\* Configured as py, with an out_dir set under python3 only: the outputs,
\* one of them declined, are under the directory py.
C20_Witness ==
    /\ pc = "done"
    /\ ret.err = NoErr
    /\ cfg.Lang = Python3.shortName
    /\ gen = Python3
    /\ ViperOutDir(Python3.slug) # <<>>
    /\ Len(ret.files) = 2
    /\ ~ret.files[1].Created
    /\ writes[1].answer = "decline"
    /\ ret.files[2].Created
    /\ ret.files[1].Path[2] = Python3.shortName

-----------------------------------------------------------------------------
(* Claims about what a baseLang renders, checked under SpecRender *)

\* The minute a clock reading falls in.
Minute(t) == t \div TicksPerMinute

\* The positions at which two strings of the same length differ.
Differences(a, b) == {p \in DOMAIN a : a[p] # b[p]}

\* The positions of the first line of a string.
FirstLine(c) == {p \in DOMAIN c : \A k \in 1..p : c[k] # NL}

\* C14 as stated: any two calls of a generator's Generate on the same
\* problem and configuration return the same files, content included.
C14_RepeatedCallsIdentical ==
    \A a, b \in DOMAIN rendered :
        /\ rendered[a].err = rendered[b].err
        /\ rendered[a].files = rendered[b].files

\* C14: any two calls of a generator's Generate on the same problem and
\* configuration return the same error and the same paths; the contents are
\* the same when the two calls read the clock in the same minute, and
\* otherwise differ in the time of the attribution line and nowhere else.
C14_RepeatedCallsSameMinute ==
    \A a, b \in DOMAIN rendered :
        /\ rendered[a].err = rendered[b].err
        /\ Len(rendered[a].files) = Len(rendered[b].files)
        /\ \A k \in DOMAIN rendered[a].files :
              LET ca == rendered[a].files[k].Content
                  cb == rendered[b].files[k].Content
              IN  /\ rendered[a].files[k].Path = rendered[b].files[k].Path
                  /\ Len(ca) = Len(cb)
                  /\ IF Minute(rendered[a].at) = Minute(rendered[b].at)
                     THEN ca = cb
                     ELSE /\ Cardinality(Differences(ca, cb)) = 1
                          /\ Differences(ca, cb) \subseteq FirstLine(ca)

\* Two successful calls in different minutes: same path, other content.
C14_Witness ==
    /\ Len(rendered) = 2
    /\ rendered[1].err = NoErr
    /\ rendered[2].err = NoErr
    /\ Minute(rendered[1].at) # Minute(rendered[2].at)
    /\ rendered[1].files[1].Path = rendered[2].files[1].Path
    /\ rendered[1].files[1].Content # rendered[2].files[1].Content

\* The lines of a string: what stands between its newlines.
RECURSIVE Lines(_)
Lines(c) ==
    IF \A p \in DOMAIN c : c[p] # NL THEN <<c>>
    ELSE LET p == CHOOSE x \in DOMAIN c :
                      c[x] = NL /\ \A y \in 1..(x - 1) : c[y] # NL
         IN  <<SubSeq(c, 1, p - 1)>> \o Lines(SubSeq(c, p + 1, Len(c)))

\* The last line of ls that is the block-comment closer alone.
CloserLine(ls) ==
    CHOOSE e \in DOMAIN ls :
        /\ ls[e] = <<lang.blockCommentEnd>>
        /\ \A k \in DOMAIN ls : k > e => ls[k] # <<lang.blockCommentEnd>>

\* C15: in every content rendered, the block-comment closer ends the header
\* on a line of its own, exactly one blank line stands between it and the
\* first line of the code, which runs to the end, and the content ends with
\* exactly one newline; the line with the contest URL is in the header if
\* and only if the problem belongs to a contest.
C15_ContentLayout ==
    \A r \in DOMAIN rendered :
        rendered[r].err = NoErr =>
            LET c == rendered[r].files[1].Content
                ls == Lines(c)
                n == Len(ls)
                e == CloserLine(ls)
                code == generateCode(lang, <<Modifier("addCodeMark", <<lang.lineComment>>)>>)
                contest == <<lang.lineComment, " ", q.ContestUrl>>
            IN  /\ Len(rendered[r].files) = 1
                /\ \E k \in DOMAIN ls : ls[k] = <<lang.blockCommentEnd>>
                /\ e + 3 <= n
                /\ ls[e + 1] = <<>>
                /\ ls[e + 2] # <<>>
                /\ SubSeq(ls, e + 2, n - 1) = Lines(code)
                /\ ls[n] = <<>>
                /\ ls[n - 1] # <<>>
                /\ c[Len(c)] = NL
                /\ q.IsContest <=> (\E k \in 1..(e - 1) : ls[k] = contest)
                /\ q.IsContest => ls[3] = contest

\* A content was rendered for a contest problem with a snippet of several
\* lines.
C15_Witness ==
    \E r \in DOMAIN rendered :
        /\ rendered[r].err = NoErr
        /\ q.IsContest
        /\ Len(Lines(GetCodeSnippet(lang.slug))) > 1
        /\ Len(Lines(rendered[r].files[1].Content)) > 12

\* C16: in every content rendered, the code section is the line made of the
\* line-comment token and the code-begin mark, then the snippet unchanged,
\* then the line made of the line-comment token and the code-end mark, in
\* this order and up to the final newline; an empty line separates the
\* snippet from each of the two lines.
C16_SnippetBetweenMarks ==
    \A r \in DOMAIN rendered :
        rendered[r].err = NoErr =>
            LET c == rendered[r].files[1].Content
                s == GetCodeSnippet(lang.slug)
                begin == <<lang.lineComment, " ", cfg.CodeBeginMark>>
                end == <<lang.lineComment, " ", cfg.CodeEndMark>>
                n == Len(s)
            IN  \E p \in DOMAIN c :
                    /\ p > 1
                    /\ Len(c) = p + 10 + n
                    /\ c[p - 1] = NL
                    /\ SubSeq(c, p, p + 2) = begin
                    /\ SubSeq(c, p + 3, p + 4) = <<NL, NL>>
                    /\ SubSeq(c, p + 5, p + 4 + n) = s
                    /\ SubSeq(c, p + 5 + n, p + 6 + n) = <<NL, NL>>
                    /\ SubSeq(c, p + 7 + n, p + 9 + n) = end
                    /\ c[p + 10 + n] = NL

\* A content was rendered by the java-like language for a snippet of
\* several lines.
C16_Witness ==
    \E r \in DOMAIN rendered :
        /\ rendered[r].err = NoErr
        /\ lang.lineComment = "//"
        /\ Len(GetCodeSnippet(lang.slug)) = 3
        /\ rendered[r].files[1].Content[Len(rendered[r].files[1].Content) - 1]
              = cfg.CodeEndMark

\* mn(...m2(m1(snippet))...) for the first n modifiers of the argument list.
RECURSIVE Nested(_)
Nested(n) ==
    IF n = 0 THEN GetCodeSnippet(lang.slug)
    ELSE Apply(modifiers[n], Nested(n - 1))

\* How many times a piece occurs in a string.
Count(piece, c) == Cardinality({p \in DOMAIN c : c[p] = piece})

\* How many modifiers of a kind the argument list has.
CountKind(kind) ==
    Cardinality({k \in DOMAIN modifiers : modifiers[k].kind = kind})

\* C18: generateCode returns mn(...m2(m1(snippet))...) for the modifiers
\* m1..mn it was given, the snippet itself for none; every modifier has left
\* its trace in the result exactly once.
C18_LeftFold ==
    coded.called =>
        /\ coded.code = Nested(Len(modifiers))
        /\ modifiers = <<>> => coded.code = GetCodeSnippet(lang.slug)
        /\ Count(cfg.CodeBeginMark, coded.code) = CountKind("addCodeMark")
        /\ Count(cfg.CodeEndMark, coded.code) = CountKind("addCodeMark")
        /\ Count("import x", coded.code) = CountKind("prepend")
        /\ Len(coded.code) = Len(GetCodeSnippet(lang.slug))
              + 10 * CountKind("addCodeMark") + 2 * CountKind("prepend")

\* generateCode was given prepend and then addCodeMark: the marks are
\* around the prepended text.
C18_Witness ==
    /\ coded.called
    /\ Len(modifiers) = 2
    /\ modifiers[1].kind = "prepend"
    /\ modifiers[2].kind = "addCodeMark"
    /\ coded.code[1] = "#"
    /\ coded.code[6] = "import x"

====
